---- MODULE Spec2Model ----
(***************************************************************************)
(* The ash window selector (ash/wm/overview/window_selector.cc): the       *)
(* session object created for Alt-Tab cycling and for overview mode, the   *)
(* ScopedShowWindow peek helper and the key-release filter, together with  *)
(* the part of the window system they act on (focus, the minimized state   *)
(* and the stacking order of the windows of each container).               *)
(***************************************************************************)
EXTENDS Integers, Sequences, FiniteSets, TLC

\* Number of windows handed to the selector.
NumWindows == 3

\* Number of windows that may be destroyed during a session.
MaxDestroyed == 2

\* aura::Window* NULL.
NULL == 0

\* The windows that exist when the selector is constructed.
AllWindows == 1..NumWindows

Roots == {"root1", "root2"}

\* kSwitchableWindowContainerIds: the containers whose children can be switched to.
SwitchableContainerIds == {"DefaultContainer", "AlwaysOnTopContainer", "PanelContainer"}

ContainerIds == SwitchableContainerIds \cup {"OtherContainer"}

Parents == Roots \X ContainerIds

VARIABLES
  phase,                  \* "unconstructed", "active", "ended" (delegate notified), "destroyed"
  input,                  \* the window list handed to the constructor
  win,                    \* window -> [type, panel_attached, root, container]
  minimized,              \* window -> wm::WindowState::IsMinimized()
  children,               \* parent -> its children, bottom of the stacking order first
  destroyed,              \* the windows destroyed so far
  focused,                \* FocusClient::GetFocusedWindow()
  entry_focus,            \* the window focused when the selector was constructed
  entry_children,         \* the stacking orders when the selector was constructed
  entry_minimized,        \* the minimized states when the selector was constructed
  mode_,
  timer_enabled_,
  timer_running,          \* start_overview_timer_.IsRunning()
  event_handler_,         \* a WindowSelectorEventFilter is installed
  windows_,               \* the items: sequence of [panels, wins]
  observed_windows_,
  observing,              \* the windows this selector is registered on as an observer
  selected_window_,       \* 0-based index into windows_
  restore_focus_window_,
  showing_window_,        \* the ScopedShowWindow: [exists, window_, stack_window_above_, minimized_]
  window_overview_,       \* the WindowOverview: [exists, selection, single_root]
  restoring_focus_,
  calls,                  \* the calls the last operation made on the delegate and the items
  last                    \* the last operation and its arguments

vars == <<phase, input, win, minimized, children, destroyed, focused, entry_focus,
          entry_children, entry_minimized, mode_,
          timer_enabled_, timer_running, event_handler_, windows_, observed_windows_,
          observing, selected_window_, restore_focus_window_, showing_window_,
          window_overview_, restoring_focus_, calls, last>>

-----------------------------------------------------------------------------
(* Sequences *)

Range(s) == {s[i] : i \in DOMAIN s}

Remove(s, w) == SelectSeq(s, LAMBDA x : x # w)

IndexOf(s, w) == CHOOSE i \in DOMAIN s : s[i] = w

\* The permutations of the elements of a set, as sequences.
Perms(S) == {s \in [1..Cardinality(S) -> S] : Range(s) = S}

-----------------------------------------------------------------------------
(* The window system *)

ParentOf(w) == <<win[w].root, win[w].container>>

\* aura::Window::StackChildAtTop
StackChildAtTop(ch, w) == Append(Remove(ch, w), w)

\* aura::Window::StackChildAtBottom
StackChildAtBottom(ch, w) == <<w>> \o Remove(ch, w)

\* Stacking the child directly below the target.
StackChildBelowTarget(ch, w, target) ==
  IF w = target \/ target \notin Range(ch) THEN ch
  ELSE LET rest == Remove(ch, w)
           i == IndexOf(rest, target)
       IN SubSeq(rest, 1, i - 1) \o <<w>> \o SubSeq(rest, i, Len(rest))

\* aura::Window::StackChildAbove: child directly above target.
StackChildAbove(ch, w, target) ==
  IF w = target \/ target \notin Range(ch) THEN ch
  ELSE LET rest == Remove(ch, w)
           i == IndexOf(rest, target)
       IN SubSeq(rest, 1, i) \o <<w>> \o SubSeq(rest, i + 1, Len(rest))

\* GetWindowBelow remembering the window before comparing it: the window itself.
GetWindowBelowOffByOne(ch, window) ==
  IF window \notin Range(ch) THEN NULL ELSE window

\* Returns the window immediately below |window| in the current container.
GetWindowBelow(ch, window) ==
  IF window \notin Range(ch) THEN NULL
  ELSE LET i == IndexOf(ch, window) IN IF i = 1 THEN NULL ELSE ch[i - 1]

-----------------------------------------------------------------------------
(* ScopedShowWindow *)

NoShowWindow == [exists |-> FALSE, window_ |-> NULL, stack_window_above_ |-> NULL,
                 minimized_ |-> FALSE]

\* ScopedShowWindow::ScopedShowWindow
NewScopedShowWindow == [NoShowWindow EXCEPT !.exists = TRUE]

\* Show reading IsMinimized() after window_->Show().
ScopedShowWindowShowLate(ch, mini, window) ==
  [show |-> [exists |-> TRUE, window_ |-> window,
             stack_window_above_ |-> GetWindowBelow(ch[ParentOf(window)], window),
             minimized_ |-> FALSE],
   children |-> [ch EXCEPT ![ParentOf(window)] = StackChildAtTop(@, window)],
   minimized |-> [mini EXCEPT ![window] = FALSE]]

\* ScopedShowWindow::Show: the new object, the children and the minimized states.
\* window_->Show() restores a minimized window.
ScopedShowWindowShow(ch, mini, window) ==
  [show |-> [exists |-> TRUE, window_ |-> window,
             stack_window_above_ |-> GetWindowBelow(ch[ParentOf(window)], window),
             minimized_ |-> mini[window]],
   children |-> [ch EXCEPT ![ParentOf(window)] = StackChildAtTop(@, window)],
   minimized |-> [mini EXCEPT ![window] = FALSE]]

\* ScopedShowWindow::~ScopedShowWindow (also run for a null scoped_ptr: no effect).
ScopedShowWindowDtor(show, ch, mini) ==
  IF show.exists /\ show.window_ # NULL
  THEN [children |->
          [ch EXCEPT ![ParentOf(show.window_)] =
             IF show.stack_window_above_ # NULL
             THEN StackChildAbove(@, show.window_, show.stack_window_above_)
             ELSE StackChildAtBottom(@, show.window_)],
        minimized |-> IF show.minimized_ THEN [mini EXCEPT ![show.window_] = TRUE]
                      ELSE mini]
  ELSE [children |-> ch, minimized |-> mini]

\* CancelRestore that keeps the window.
CancelRestoreKeepsWindow(show) == show

\* ScopedShowWindow::CancelRestore
CancelRestore(show) ==
  IF show.window_ = NULL THEN show
  ELSE [show EXCEPT !.window_ = NULL, !.stack_window_above_ = NULL]

\* ScopedShowWindow::OnWillRemoveWindow, called while |window| is still a child.
OnWillRemoveWindow(show, ch, window) ==
  IF window = show.window_ THEN CancelRestore(show)
  ELSE IF window = show.stack_window_above_
       THEN [show EXCEPT !.stack_window_above_ =
                            GetWindowBelow(ch[ParentOf(window)], window)]
       ELSE show

-----------------------------------------------------------------------------
(* Selector items *)

\* The grouping test without panel_attached().
IsAnyPanel(w) == win[w].type = "PANEL"

\* windows[i]->type() == WINDOW_TYPE_PANEL && panel_attached()
IsAttachedPanel(w) == win[w].type = "PANEL" /\ win[w].panel_attached

\* WindowSelectorItem::GetRootWindow
GetRootWindow(item) == win[Head(item.wins)].root

\* WindowSelectorItem::SelectionWindow
SelectionWindow(item) == Head(item.wins)

\* WindowSelectorItemComparator: the item holds the target window.
TargetedWindow(item, target) == target \in Range(item.wins)

\* std::find_if over the items: the 1-based index of the first match, 0 for end().
FindItem(items, target) ==
  LET found == {i \in DOMAIN items : TargetedWindow(items[i], target)}
  IN IF found = {} THEN 0 ELSE CHOOSE i \in found : \A j \in found : i <= j

\* WindowSelectorItemForRoot over panels_items: first panels item of the root.
FindPanelsItemForRoot(items, r) ==
  LET found == {i \in DOMAIN items : items[i].panels /\ GetRootWindow(items[i]) = r}
  IN IF found = {} THEN 0 ELSE CHOOSE i \in found : \A j \in found : i <= j

\* The loop of the constructor that builds windows_ from the input list.
RECURSIVE BuildItems(_, _)
BuildItems(ws, items) ==
  IF ws = <<>> THEN items
  ELSE LET w == Head(ws) IN
       IF IsAttachedPanel(w)
       THEN LET i == FindPanelsItemForRoot(items, win[w].root) IN
            IF i = 0
            THEN BuildItems(Tail(ws), Append(items, [panels |-> TRUE, wins |-> <<w>>]))
            ELSE BuildItems(Tail(ws), [items EXCEPT ![i].wins = Append(@, w)])
       ELSE BuildItems(Tail(ws), Append(items, [panels |-> FALSE, wins |-> <<w>>]))

-----------------------------------------------------------------------------
(* WindowOverview, as far as the selector drives it *)

NoOverview == [exists |-> FALSE, selection |-> -1, single_root |-> "none"]

\* new WindowOverview(this, &windows_, single_root_window)
NewWindowOverview(single_root) ==
  [exists |-> TRUE, selection |-> -1, single_root |-> single_root]

-----------------------------------------------------------------------------
(* Records of what happened *)

\* |restored| is the window whose peek the operation ended, if it ended one;
\* |from| and |mode| are the selected index and the mode before the operation;
\* |erased| is the 0-based index of the item the operation erased, if it erased one.
NoArgs == [window |-> NULL, direction |-> "none", from |-> -1, ended_by |-> "none",
           restored |-> NULL, mode |-> "none", erased |-> -1]

Op(name, args) == [op |-> name, args |-> args]

\* A call on the WindowSelectorDelegate.
DelegateCall(name, window) ==
  [target |-> "delegate", name |-> name, item |-> 0, window |-> window]

\* A call on the item at 1-based position |item| of windows_.
ItemCall(name, item, window) ==
  [target |-> "item", name |-> name, item |-> item, window |-> window]

-----------------------------------------------------------------------------
(* Initial states: the windows before a selector exists *)

WindowKinds ==
  {[type |-> "NORMAL", panel_attached |-> FALSE, container |-> "DefaultContainer"],
   [type |-> "PANEL", panel_attached |-> TRUE, container |-> "PanelContainer"],
   [type |-> "PANEL", panel_attached |-> FALSE, container |-> "PanelContainer"]}

WindowInfo(kind, r) ==
  [type |-> kind.type, panel_attached |-> kind.panel_attached, root |-> r,
   container |-> kind.container]

\* A window outside the switchable containers (a menu, a bubble): never in the list.
OtherWindowInfo ==
  [type |-> "POPUP", panel_attached |-> FALSE, root |-> "root1",
   container |-> "OtherContainer"]

\* The windows before a selector exists. The input list is the windows 1..k in
\* most-recently-used order; the windows after them are not switchable.
Environment(k, kinds, roots, mini, order, focus) ==
  /\ input = [i \in 1..k |-> i]
  /\ win = [w \in AllWindows |->
              IF w > k THEN OtherWindowInfo ELSE WindowInfo(kinds[w], roots[w])]
  /\ minimized = [w \in AllWindows |-> w \in mini]
  /\ children = [p \in Parents |-> SelectSeq(order, LAMBDA w : ParentOf(w) = p)]
  /\ focused = focus
  /\ entry_focus = focus
  /\ entry_children = children
  /\ entry_minimized = minimized

\* The stacking orders tried: the list order and its reverse.
Ascending == [i \in 1..NumWindows |-> i]

Descending == [i \in 1..NumWindows |-> NumWindows + 1 - i]

\* The kinds of window the window cycler is handed.
CycledKinds == {kind \in WindowKinds : kind.type = "NORMAL" \/ kind.panel_attached}

NoSelector ==
  /\ phase = "unconstructed"
  /\ destroyed = {}
  /\ mode_ = "none"
  /\ timer_enabled_ = FALSE
  /\ timer_running = FALSE
  /\ event_handler_ = FALSE
  /\ windows_ = <<>>
  /\ observed_windows_ = {}
  /\ observing = {}
  /\ selected_window_ = 0
  /\ restore_focus_window_ = NULL
  /\ showing_window_ = NoShowWindow
  /\ window_overview_ = NoOverview
  /\ restoring_focus_ = FALSE
  /\ calls = <<>>
  /\ last = Op("none", NoArgs)

\* Either windows of mixed kinds over both roots (the first on root1: the roots
\* are interchangeable), any window focused and none minimized; or windows of one
\* kind in one container, any of them minimized, in either stacking order.
Init ==
  /\ \E k \in 1..NumWindows :
       \/ \E kinds \in [1..k -> CycledKinds], roots \in [1..k -> Roots],
             focus \in {NULL} \cup AllWindows :
            /\ roots[1] = "root1"
            /\ Environment(k, kinds, roots, {}, Ascending, focus)
       \/ \E kind \in CycledKinds, mini \in SUBSET (1..k),
             order \in {Ascending, Descending} :
            Environment(k, [w \in 1..k |-> kind], [w \in 1..k |-> "root1"], mini,
                        order, NULL)
  /\ NoSelector

\* Any list of windows of any kind on any root, to construct a selector from.
InitItems ==
  /\ \E k \in 1..NumWindows :
       \E kinds \in [1..k -> WindowKinds], roots \in [1..k -> Roots] :
         Environment(k, kinds, roots, {}, Ascending, NULL)
  /\ NoSelector

-----------------------------------------------------------------------------
(* Pieces of the selector's methods *)

\* kOverviewDelayOnCycleMilliseconds
kOverviewDelayOnCycleMilliseconds == 100

\* kMaxOverviewDelayOnCycleMilliseconds
kMaxOverviewDelayOnCycleMilliseconds == 10000

\* The values of --ash-overview-delay-on-alt-tab tried.
OverviewDelays == {kOverviewDelayOnCycleMilliseconds,
                   kMaxOverviewDelayOnCycleMilliseconds - 1,
                   kMaxOverviewDelayOnCycleMilliseconds,
                   kMaxOverviewDelayOnCycleMilliseconds + 1}

\* timer_enabled_(GetOverviewDelayOnCycleMilliseconds() < kMaxOverviewDelayOnCycleMilliseconds)
TimerEnabled(delay) == delay < kMaxOverviewDelayOnCycleMilliseconds

\* The end of the constructor with the key filter installed in both modes.
EntryStateFilterAlways(mode, enabled) ==
  IF mode = "CYCLE"
  THEN [event_handler |-> TRUE, timer_running |-> enabled, overview |-> NoOverview]
  ELSE [event_handler |-> TRUE, timer_running |-> FALSE,
        overview |-> NewWindowOverview("none")]

\* The end of the constructor: [event_handler, timer_running, overview].
\* StartOverview runs with mode_ == OVERVIEW and no ScopedShowWindow.
EntryState(mode, enabled) ==
  IF mode = "CYCLE"
  THEN [event_handler |-> TRUE, timer_running |-> enabled, overview |-> NoOverview]
  ELSE [event_handler |-> FALSE, timer_running |-> FALSE,
        overview |-> NewWindowOverview("none")]

\* The Alt test without the event type.
IsAltKey(key_code, event_type) == key_code = "VKEY_MENU"

\* OnKeyEvent: the event is the release of an Alt key.
IsAltRelease(key_code, event_type) ==
  key_code = "VKEY_MENU" /\ event_type = "ET_KEY_RELEASED"

\* Step that ignores the direction.
StepIndexForwardOnly(selected, size, direction) == (selected + size + 1) % size

\* Step: the new selected index.
StepIndex(selected, size, direction) ==
  (selected + size + (IF direction = "FORWARD" THEN 1 ELSE -1)) % size

\* Step without the upgrade of the mode.
StepModeKeeps(mode) == mode

\* Step: the mode afterwards (if (mode_ != CYCLE) { ... mode_ = CYCLE; }).
StepMode(mode) == IF mode # "CYCLE" THEN "CYCLE" ELSE mode

\* Step, peek branch: whether the overview timer runs afterwards
\* (start_overview_timer_.Reset(); if (timer_enabled_) start_overview_timer_.Reset();).
StepStartsTimer(enabled) == TRUE

\* OnWindowAdded without the transient parent test.
WindowAddedCancelsTransient(type, container, transient) ==
  /\ type \in {"NORMAL", "PANEL"}
  /\ \E id \in SwitchableContainerIds : container = id

\* OnWindowAdded: whether the new window aborts the session.
WindowAddedCancels(type, container, transient) ==
  /\ type \in {"NORMAL", "PANEL"}
  /\ \E id \in SwitchableContainerIds : container = id /\ ~transient

\* OnWindowActivated without the restoring_focus_ test.
ActivationCancelsWhileRestoring(restoring_focus, gained_active) ==
  ~(gained_active = NULL)

\* OnWindowActivated: whether the activation cancels the session.
ActivationCancels(restoring_focus, gained_active) ==
  ~(restoring_focus \/ gained_active = NULL)

\* OnAttemptToReactivateWindow: whether the attempt cancels the session.
ReactivationCancels(restoring_focus) == ~restoring_focus

\* The index adjustment without the modulo.
SelectionAfterEraseNoWrap(mode, selected, deleted_index, size) ==
  IF mode = "CYCLE" /\ selected >= deleted_index
  THEN (IF selected > deleted_index THEN selected - 1 ELSE selected)
  ELSE selected

\* The index adjustment without the decrement.
SelectionAfterEraseNoDecrement(mode, selected, deleted_index, size) ==
  IF mode = "CYCLE" /\ selected >= deleted_index
  THEN selected % size
  ELSE selected

\* OnWindowDestroying: the selected index after the item at deleted_index was
\* erased, |size| being the number of items left.
SelectionAfterErase(mode, selected, deleted_index, size) ==
  IF mode = "CYCLE" /\ selected >= deleted_index
  THEN (IF selected > deleted_index THEN selected - 1 ELSE selected) % size
  ELSE selected

\* ResetFocusRestoreWindow that never focuses the window.
ResetFocusRestoreWindowNoFocus(focus) ==
  [focused |-> focused, restore |-> NULL,
   observing |-> IF restore_focus_window_ \notin observed_windows_
                 THEN observing \ {restore_focus_window_} ELSE observing,
   calls |-> <<>>]

\* ResetFocusRestoreWindow: [focused, restore, observing, calls].
\* Focus() activates the window, which calls back OnWindowActivated while
\* restoring_focus_ is set.
ResetFocusRestoreWindow(focus) ==
  IF restore_focus_window_ = NULL
  THEN [focused |-> focused, restore |-> NULL, observing |-> observing, calls |-> <<>>]
  ELSE [focused |-> IF focus THEN restore_focus_window_ ELSE focused,
        restore |-> NULL,
        observing |-> IF restore_focus_window_ \notin observed_windows_
                      THEN observing \ {restore_focus_window_} ELSE observing,
        calls |-> IF focus /\ ActivationCancels(TRUE, restore_focus_window_)
                  THEN <<DelegateCall("OnSelectionCanceled", NULL)>> ELSE <<>>]

\* SelectWindow(aura::Window*): [show, calls].
SelectWindowEffect(window) ==
  [show |-> IF showing_window_.exists /\ showing_window_.window_ = window
            THEN CancelRestore(showing_window_) ELSE showing_window_,
   calls |-> <<ItemCall("RestoreWindowOnExit", FindItem(windows_, window), window),
               DelegateCall("OnWindowSelected", window)>>]

\* StartOverview: [children, minimized, overview].
StartOverviewEffect(mode) ==
  LET restored == ScopedShowWindowDtor(showing_window_, children, minimized)
      created == NewWindowOverview(
                   IF mode = "CYCLE" THEN GetRootWindow(windows_[selected_window_ + 1])
                   ELSE "none")
  IN [children |-> restored.children, minimized |-> restored.minimized,
      overview |-> IF mode = "CYCLE"
                   THEN [created EXCEPT !.selection = selected_window_]
                   ELSE created]

\* std::vector::erase of the element at 1-based position i.
EraseAt(s, i) == SubSeq(s, 1, i - 1) \o SubSeq(s, i + 1, Len(s))

\* OnWindowDestroying that erases the item without testing whether it is empty.
OnWindowDestroyingEffectErasesItem(window) ==
  LET iter == FindItem(windows_, window)
      restore == IF window = restore_focus_window_ THEN NULL ELSE restore_focus_window_
      same == [windows_ |-> windows_, observed |-> observed_windows_,
               observing |-> observing \ {window}, restore |-> restore,
               selected |-> selected_window_, overview |-> window_overview_,
               calls |-> <<>>, ended |-> FALSE]
  IN IF iter = 0 THEN same
     ELSE LET erased == EraseAt(windows_, iter)
              observed == observed_windows_ \ {window}
          IN IF erased = <<>>
             THEN [same EXCEPT !.windows_ = erased, !.observed = observed,
                               !.calls = <<DelegateCall("OnSelectionCanceled", NULL)>>,
                               !.ended = TRUE]
             ELSE [same EXCEPT
                     !.windows_ = erased, !.observed = observed,
                     !.selected = SelectionAfterErase(mode_, selected_window_, iter - 1,
                                                      Len(erased))]

\* WindowSelector::OnWindowDestroying:
\* [windows_, observed, observing, restore, selected, overview, calls, ended].
OnWindowDestroyingEffect(window) ==
  LET iter == FindItem(windows_, window)
      restore == IF window = restore_focus_window_ THEN NULL ELSE restore_focus_window_
      same == [windows_ |-> windows_, observed |-> observed_windows_,
               observing |-> observing \ {window}, restore |-> restore,
               selected |-> selected_window_, overview |-> window_overview_,
               calls |-> <<>>, ended |-> FALSE]
  IN IF iter = 0 THEN same
     ELSE LET removed == [windows_ EXCEPT ![iter].wins = Remove(@, window)]
              observed == observed_windows_ \ {window}
          IN IF removed[iter].wins # <<>>
             THEN [same EXCEPT !.windows_ = removed, !.observed = observed]
             ELSE LET erased == EraseAt(removed, iter)
                      deleted_index == iter - 1
                  IN IF erased = <<>>
                     THEN [same EXCEPT !.windows_ = erased, !.observed = observed,
                                       !.calls = <<DelegateCall("OnSelectionCanceled", NULL)>>,
                                       !.ended = TRUE]
                     ELSE LET selected == SelectionAfterErase(mode_, selected_window_,
                                                              deleted_index, Len(erased))
                          IN [same EXCEPT
                                !.windows_ = erased, !.observed = observed,
                                !.selected = selected,
                                !.overview =
                                  IF window_overview_.exists /\ mode_ = "CYCLE"
                                     /\ selected_window_ >= deleted_index
                                  THEN [window_overview_ EXCEPT !.selection = selected]
                                  ELSE window_overview_]

-----------------------------------------------------------------------------
(* Operations *)

\* WindowSelector::WindowSelector
Construct(mode, delay) ==
  /\ phase = "unconstructed"
  /\ phase' = "active"
  /\ windows_' = BuildItems(input, <<>>)
  /\ observed_windows_' = Range(input)
  \* RemoveFocusAndSetRestoreWindow
  /\ restore_focus_window_' = focused
  /\ observing' = Range(input) \cup (IF focused # NULL THEN {focused} ELSE {})
  /\ focused' = NULL
  /\ mode_' = mode
  /\ timer_enabled_' = TimerEnabled(delay)
  /\ selected_window_' = 0
  /\ showing_window_' = NoShowWindow
  /\ LET entry == EntryState(mode, TimerEnabled(delay))
     IN /\ event_handler_' = entry.event_handler
        /\ timer_running' = entry.timer_running
        /\ window_overview_' = entry.overview
  /\ calls' = <<>>
  /\ last' = Op("Construct", NoArgs)
  /\ UNCHANGED <<input, win, minimized, children, destroyed, entry_focus,
                 entry_children, entry_minimized, restoring_focus_>>

\* WindowSelector::~WindowSelector, followed by the destructors of the members.
Destroy ==
  /\ phase \in {"active", "ended"}
  /\ phase' = "destroyed"
  /\ LET reset == ResetFocusRestoreWindow(TRUE)
         restored == ScopedShowWindowDtor(showing_window_, children, minimized)
     IN /\ focused' = reset.focused
        /\ restore_focus_window_' = reset.restore
        /\ observing' = reset.observing \ observed_windows_
        /\ calls' = reset.calls
        /\ children' = restored.children
        /\ minimized' = restored.minimized
  /\ window_overview_' = NoOverview
  /\ windows_' = <<>>
  /\ showing_window_' = NoShowWindow
  /\ event_handler_' = FALSE
  /\ timer_running' = FALSE
  /\ observed_windows_' = {}
  /\ selected_window_' = 0
  /\ last' = Op("Destroy", [NoArgs EXCEPT
                              !.ended_by = IF phase = "ended" THEN last.op ELSE "none",
                              !.restored = showing_window_.window_])
  /\ UNCHANGED <<input, win, destroyed, entry_focus, entry_children,
                 entry_minimized, mode_, timer_enabled_,
                 restoring_focus_>>

\* WindowSelector::Step
Step(direction) ==
  /\ phase = "active"
  /\ windows_ # <<>>
  /\ LET upgrade == mode_ # "CYCLE"
         \* SetSelection and MoveToSingleRootWindow of the upgrade
         moved == IF upgrade
                  THEN [window_overview_ EXCEPT
                          !.selection = selected_window_,
                          !.single_root = GetRootWindow(windows_[selected_window_ + 1])]
                  ELSE window_overview_
         selected == StepIndex(selected_window_, Len(windows_), direction)
     IN /\ mode_' = StepMode(mode_)
        /\ event_handler_' = TRUE
        /\ selected_window_' = selected
        /\ IF moved.exists
           THEN /\ window_overview_' = [moved EXCEPT !.selection = selected]
                /\ UNCHANGED <<showing_window_, children, minimized, timer_running>>
           ELSE LET restored == ScopedShowWindowDtor(showing_window_, children, minimized)
                    shown == ScopedShowWindowShow(restored.children, restored.minimized,
                                                  SelectionWindow(windows_[selected + 1]))
                IN /\ showing_window_' = shown.show
                   /\ children' = shown.children
                   /\ minimized' = shown.minimized
                   /\ timer_running' = StepStartsTimer(timer_enabled_)
                   /\ window_overview_' = moved
  /\ calls' = <<>>
  /\ last' = Op("Step", [NoArgs EXCEPT !.direction = direction, !.from = selected_window_,
                                       !.restored = showing_window_.window_,
                                       !.mode = mode_])
  /\ UNCHANGED <<phase, input, win, destroyed, focused, entry_focus, entry_children,
                 entry_minimized, timer_enabled_,
                 windows_, observed_windows_, observing, restore_focus_window_,
                 restoring_focus_>>

\* The delay timer fires: WindowSelector::StartOverview
TimerFired ==
  /\ phase = "active"
  /\ timer_running
  /\ timer_running' = FALSE
  /\ LET started == StartOverviewEffect(mode_)
     IN /\ children' = started.children
        /\ minimized' = started.minimized
        /\ window_overview_' = started.overview
  /\ showing_window_' = NoShowWindow
  /\ calls' = <<>>
  /\ last' = Op("TimerFired", [NoArgs EXCEPT !.restored = showing_window_.window_])
  /\ UNCHANGED <<phase, input, win, destroyed, focused, entry_focus, entry_children,
                 entry_minimized, mode_,
                 timer_enabled_, event_handler_, windows_, observed_windows_, observing,
                 selected_window_, restore_focus_window_, restoring_focus_>>

\* WindowSelectorEventFilter::OnKeyEvent, and WindowSelector::SelectWindow() from it.
\* An event the filter ignores leaves no trace, not even in |last|.
OnKeyEvent(key_code, event_type) ==
  /\ phase = "active"
  /\ event_handler_
  /\ IF IsAltRelease(key_code, event_type)
     THEN LET reset == ResetFocusRestoreWindow(FALSE)
              selected == SelectWindowEffect(SelectionWindow(windows_[selected_window_ + 1]))
          IN /\ focused' = reset.focused
             /\ restore_focus_window_' = reset.restore
             /\ observing' = reset.observing
             /\ showing_window_' = selected.show
             /\ calls' = reset.calls \o selected.calls
             /\ phase' = "ended"
             /\ last' = Op("OnKeyEvent", NoArgs)
     ELSE UNCHANGED <<focused, restore_focus_window_, observing, showing_window_, phase,
                      calls, last>>
  /\ UNCHANGED <<input, win, minimized, children, destroyed, entry_focus, entry_children,
                 entry_minimized, mode_,
                 timer_enabled_, timer_running, event_handler_, windows_,
                 observed_windows_, selected_window_, window_overview_, restoring_focus_>>

\* WindowSelector::SelectWindow(aura::Window*), called by the overview for a
\* window the user picked.
SelectWindow(window) ==
  /\ phase = "active"
  /\ window_overview_.exists
  /\ FindItem(windows_, window) # 0
  /\ LET selected == SelectWindowEffect(window)
     IN /\ showing_window_' = selected.show
        /\ calls' = selected.calls
  /\ phase' = "ended"
  /\ last' = Op("SelectWindow", [NoArgs EXCEPT !.window = window])
  /\ UNCHANGED <<input, win, minimized, children, destroyed, focused, entry_focus, entry_children,
                 entry_minimized, mode_,
                 timer_enabled_, timer_running, event_handler_, windows_,
                 observed_windows_, observing, selected_window_, restore_focus_window_,
                 window_overview_, restoring_focus_>>

\* WindowSelector::CancelSelection
CancelSelection ==
  /\ phase = "active"
  /\ phase' = "ended"
  /\ calls' = <<DelegateCall("OnSelectionCanceled", NULL)>>
  /\ last' = Op("CancelSelection", NoArgs)
  /\ UNCHANGED <<input, win, minimized, children, destroyed, focused, entry_focus, entry_children,
                 entry_minimized, mode_,
                 timer_enabled_, timer_running, event_handler_, windows_,
                 observed_windows_, observing, selected_window_, restore_focus_window_,
                 showing_window_, window_overview_, restoring_focus_>>

\* WindowSelector::OnWindowAdded for a new window of the given type, added to the
\* container with the given id, with or without a transient parent.
OnWindowAdded(type, container, transient) ==
  /\ phase = "active"
  /\ IF WindowAddedCancels(type, container, transient)
     THEN /\ calls' = <<DelegateCall("OnSelectionCanceled", NULL)>>
          /\ phase' = "ended"
          /\ last' = Op("OnWindowAdded", NoArgs)
     ELSE UNCHANGED <<phase, calls, last>>
  /\ UNCHANGED <<input, win, minimized, children, destroyed, focused, entry_focus, entry_children,
                 entry_minimized, mode_,
                 timer_enabled_, timer_running, event_handler_, windows_,
                 observed_windows_, observing, selected_window_, restore_focus_window_,
                 showing_window_, window_overview_, restoring_focus_>>

\* A window is activated (or, with NULL, the active window is deactivated) by
\* something other than the selector: WindowSelector::OnWindowActivated.
OnWindowActivated(gained_active) ==
  /\ phase = "active"
  /\ gained_active \in ({NULL} \cup AllWindows) \ destroyed
  /\ IF ActivationCancels(restoring_focus_, gained_active)
     THEN LET reset == ResetFocusRestoreWindow(FALSE)
          IN /\ restore_focus_window_' = reset.restore
             /\ observing' = reset.observing
             /\ calls' = reset.calls \o <<DelegateCall("OnSelectionCanceled", NULL)>>
             /\ phase' = "ended"
             /\ last' = Op("OnWindowActivated", [NoArgs EXCEPT !.window = gained_active])
     ELSE UNCHANGED <<restore_focus_window_, observing, phase, calls, last>>
  /\ focused' = gained_active
  /\ UNCHANGED <<input, win, minimized, children, destroyed, entry_focus, entry_children,
                 entry_minimized, mode_,
                 timer_enabled_, timer_running, event_handler_, windows_,
                 observed_windows_, selected_window_, showing_window_,
                 window_overview_, restoring_focus_>>

\* WindowSelector::OnAttemptToReactivateWindow
OnAttemptToReactivateWindow(request_active) ==
  /\ phase = "active"
  /\ request_active \in AllWindows \ destroyed
  /\ IF ReactivationCancels(restoring_focus_)
     THEN LET reset == ResetFocusRestoreWindow(FALSE)
          IN /\ restore_focus_window_' = reset.restore
             /\ observing' = reset.observing
             /\ calls' = reset.calls \o <<DelegateCall("OnSelectionCanceled", NULL)>>
             /\ phase' = "ended"
             /\ last' = Op("OnAttemptToReactivateWindow", NoArgs)
     ELSE UNCHANGED <<restore_focus_window_, observing, phase, calls, last>>
  /\ UNCHANGED <<input, win, minimized, children, destroyed, focused, entry_focus, entry_children,
                 entry_minimized, mode_,
                 timer_enabled_, timer_running, event_handler_, windows_,
                 observed_windows_, selected_window_, showing_window_,
                 window_overview_, restoring_focus_>>

\* A window is destroyed: aura::Window::~Window tells the window's observers
\* (OnWindowDestroying), then the observers of its parent (OnWillRemoveWindow),
\* then takes the window out of its parent.
WindowDestroyed(window) ==
  /\ phase = "active"
  /\ window \in AllWindows \ destroyed
  /\ Cardinality(destroyed) < MaxDestroyed
  /\ destroyed' = destroyed \cup {window}
  /\ IF window \in observing
     THEN LET after == OnWindowDestroyingEffect(window)
          IN /\ windows_' = after.windows_
             /\ observed_windows_' = after.observed
             /\ observing' = after.observing
             /\ restore_focus_window_' = after.restore
             /\ selected_window_' = after.selected
             /\ window_overview_' = after.overview
             /\ calls' = after.calls
             /\ phase' = IF after.ended THEN "ended" ELSE phase
     ELSE /\ calls' = <<>>
          /\ UNCHANGED <<windows_, observed_windows_, observing, restore_focus_window_,
                         selected_window_, window_overview_, phase>>
  /\ showing_window_' =
       IF showing_window_.exists /\ showing_window_.window_ # NULL
          /\ ParentOf(showing_window_.window_) = ParentOf(window)
       THEN OnWillRemoveWindow(showing_window_, children, window)
       ELSE showing_window_
  /\ children' = [children EXCEPT ![ParentOf(window)] = Remove(@, window)]
  /\ focused' = IF focused = window THEN NULL ELSE focused
  /\ last' = Op("WindowDestroyed",
                [NoArgs EXCEPT !.window = window, !.from = selected_window_,
                               !.mode = mode_,
                               !.erased = IF window \in observing
                                             /\ Len(windows_') < Len(windows_)
                                          THEN FindItem(windows_, window) - 1 ELSE -1])
  /\ UNCHANGED <<input, win, minimized, entry_focus, entry_children,
                 entry_minimized, mode_, timer_enabled_,
                 timer_running, event_handler_, restoring_focus_>>

-----------------------------------------------------------------------------

Modes == {"CYCLE", "OVERVIEW"}

Directions == {"FORWARD", "BACKWARD"}

KeyCodes == {"VKEY_MENU", "VKEY_TAB"}

EventTypes == {"ET_KEY_PRESSED", "ET_KEY_RELEASED"}

WindowTypes == {"NORMAL", "PANEL", "POPUP"}

Next ==
  \/ \E mode \in Modes, delay \in OverviewDelays : Construct(mode, delay)
  \/ Destroy
  \/ \E direction \in Directions : Step(direction)
  \/ TimerFired
  \/ \E key_code \in KeyCodes, event_type \in EventTypes : OnKeyEvent(key_code, event_type)
  \/ \E window \in AllWindows : SelectWindow(window)
  \/ CancelSelection
  \/ \E type \in WindowTypes, container \in ContainerIds, transient \in BOOLEAN :
       OnWindowAdded(type, container, transient)
  \/ \E gained_active \in {NULL} \cup AllWindows : OnWindowActivated(gained_active)
  \/ \E request_active \in AllWindows : OnAttemptToReactivateWindow(request_active)
  \/ \E window \in AllWindows : WindowDestroyed(window)

Spec == Init /\ [][Next]_vars

\* Construction alone, over every kind of input list.
NextItems ==
  \/ \E mode \in Modes, delay \in OverviewDelays : Construct(mode, delay)
  \/ Destroy

SpecItems == InitItems /\ [][NextItems]_vars

-----------------------------------------------------------------------------
(* Properties *)

\* The calls among cs that went to the delegate.
DelegateCalls(cs) == SelectSeq(cs, LAMBDA c : c.target = "delegate")

\* A peek is in progress: the ScopedShowWindow holds a window to restore.
Showing == showing_window_.exists /\ showing_window_.window_ # NULL

\* The top of a stacking order.
Top(ch) == ch[Len(ch)]

\* The operations that end a session by selecting a window or by an activation.
SelectOps == {"OnKeyEvent", "SelectWindow"}

ActivateOps == {"OnWindowActivated", "OnAttemptToReactivateWindow"}

\* n FORWARD steps from index i among size items.
RECURSIVE StepForwardTimes(_, _, _)
StepForwardTimes(i, size, n) ==
  IF n = 0 THEN i ELSE StepForwardTimes(StepIndex(i, size, "FORWARD"), size, n - 1)

\* C1: right after a Step from index i over n >= 1 items the selected index is
\* (i+1) mod n for FORWARD and (i-1+n) mod n for BACKWARD; a FORWARD step then a
\* BACKWARD step from the index reached, and n FORWARD steps, come back to it.
C1_StepCycles ==
  last.op = "Step" =>
    LET n == Len(windows_)
        i == last.args.from
    IN /\ n >= 1
       /\ last.args.direction = "FORWARD" => selected_window_ = (i + 1) % n
       /\ last.args.direction = "BACKWARD" => selected_window_ = (i - 1 + n) % n
       /\ StepIndex(StepIndex(selected_window_, n, "FORWARD"), n, "BACKWARD")
            = selected_window_
       /\ StepForwardTimes(selected_window_, n, n) = selected_window_

\* C1 witness: a BACKWARD step wrapped from the first to the last of three items.
C1_Witness ==
  /\ last.op = "Step"
  /\ last.args.direction = "BACKWARD"
  /\ last.args.from = 0
  /\ Len(windows_) >= 3
  /\ selected_window_ = Len(windows_) - 1

\* C2: the constructor records the window focused at entry and removes focus;
\* a selector destroyed without a window selected or activated in the session
\* gives focus back to that window, unless the window was destroyed.
C2_FocusRestored ==
  /\ last.op = "Construct" => restore_focus_window_ = entry_focus /\ focused = NULL
  /\ (/\ phase = "destroyed"
      /\ last.args.ended_by \notin SelectOps \cup ActivateOps
      /\ entry_focus # NULL
      /\ entry_focus \notin destroyed) => focused = entry_focus

\* C2 witness: destroyed after steps and a destroyed window, focus back at entry.
C2_Witness ==
  /\ phase = "destroyed"
  /\ last.args.ended_by = "none"
  /\ entry_focus # NULL
  /\ destroyed # {}
  /\ entry_focus \notin destroyed
  /\ focused = entry_focus

\* The children after showing |window| from the current state and then
\* destroying the ScopedShowWindow.
ShowThenRestore(window) ==
  LET shown == ScopedShowWindowShow(children, minimized, window)
  IN ScopedShowWindowDtor(shown.show, shown.children, shown.minimized).children

\* C3: Show(W) puts W at the top of its parent's stacking order, and destroying
\* the ScopedShowWindow (no window removed, no CancelRestore) gives back the
\* order there was before Show: for every child W of every stacking order
\* reached, and for the peeks the selector makes.
C3_ShowRoundTrip ==
  /\ Showing => Top(children[ParentOf(showing_window_.window_)]) = showing_window_.window_
  /\ \A w \in AllWindows \ destroyed :
       /\ Top(ScopedShowWindowShow(children, minimized, w).children[ParentOf(w)]) = w
       /\ ShowThenRestore(w) = children
  /\ (destroyed = {} /\ Showing) =>
       children = [entry_children EXCEPT ![ParentOf(showing_window_.window_)] =
                     Append(Remove(@, showing_window_.window_), showing_window_.window_)]
  /\ (destroyed = {} /\ phase = "active" /\ ~Showing) => children = entry_children
  /\ (destroyed = {} /\ phase = "destroyed" /\ last.args.ended_by \notin SelectOps) =>
       children = entry_children

\* C3 witness: the selector was destroyed while peeking the middle one of three
\* windows, and the stacking order is the one at entry.
C3_Witness ==
  /\ phase = "destroyed"
  /\ destroyed = {}
  /\ last.args.restored # NULL
  /\ Len(entry_children[ParentOf(last.args.restored)]) >= 3
  /\ entry_children[ParentOf(last.args.restored)][2] = last.args.restored
  /\ children = entry_children

\* C4: constructed in OVERVIEW mode the selector has its overview and no key
\* filter; constructed in CYCLE mode it has the key filter and no overview, and
\* an overview only comes to exist in the constructor or when the timer fires.
C4_ModeEntry ==
  /\ [](last.op = "Construct" =>
          /\ mode_ = "OVERVIEW" => window_overview_.exists /\ ~event_handler_
          /\ mode_ = "CYCLE" => ~window_overview_.exists /\ event_handler_)
  /\ [][(~window_overview_.exists /\ window_overview_'.exists) =>
          \/ last'.op = "TimerFired" /\ mode_ = "CYCLE"
          \/ last'.op = "Construct" /\ mode_' = "OVERVIEW"]_vars

\* C4 witness: a CYCLE selector whose timer fired has both filter and overview.
C4_Witness ==
  /\ last.op = "TimerFired"
  /\ mode_ = "CYCLE"
  /\ event_handler_
  /\ window_overview_.exists

\* C5: with the timer disabled (delay not below the maximum) the overview timer
\* is never running, and a selector constructed in CYCLE mode has no overview.
C5_DisabledTimerNeverStarts ==
  ~timer_enabled_ => /\ ~timer_running
                     /\ last.op = "TimerFired" => FALSE

\* Attached panel, as the constructor's comment defines the grouping.
AttachedPanelWindow(w) == win[w].type = "PANEL" /\ win[w].panel_attached

\* The 1-based positions of the items that hold window w.
ItemsHolding(w) == {i \in DOMAIN windows_ : w \in Range(windows_[i].wins)}

\* The first position in the input list of a window of the item.
FirstOccurrence(item) ==
  CHOOSE i \in DOMAIN input :
    /\ input[i] \in Range(item.wins)
    /\ \A j \in DOMAIN input : input[j] \in Range(item.wins) => i <= j

\* C6: the items the constructor builds: one panels item per root that has an
\* attached panel, holding the attached panels of that root; one item of its own
\* for every other window; every input window in exactly one item, once; items
\* in the order of their first window in the input list.
C6_ItemsGroupPanels ==
  phase = "active" =>
    LET listed == Range(input)
        panels == {w \in listed : AttachedPanelWindow(w)}
        panel_roots == {win[w].root : w \in panels}
    IN /\ Len(windows_) = Cardinality(listed \ panels) + Cardinality(panel_roots)
       /\ \A w \in listed :
            /\ Cardinality(ItemsHolding(w)) = 1
            /\ \A i \in ItemsHolding(w) :
                 /\ Cardinality({j \in DOMAIN windows_[i].wins : windows_[i].wins[j] = w}) = 1
                 /\ IF w \in panels
                    THEN /\ windows_[i].panels
                         /\ Range(windows_[i].wins) = {v \in panels : win[v].root = win[w].root}
                    ELSE windows_[i] = [panels |-> FALSE, wins |-> <<w>>]
       /\ \A i \in DOMAIN windows_ : Range(windows_[i].wins) \subseteq listed
                                     /\ windows_[i].wins # <<>>
       /\ \A i, j \in DOMAIN windows_ :
            i < j => FirstOccurrence(windows_[i]) < FirstOccurrence(windows_[j])

\* C6 witness: two attached panels of one root grouped, between them a detached
\* panel with an item of its own.
C6_Witness ==
  /\ phase = "active"
  /\ \E i \in DOMAIN windows_ : windows_[i].panels /\ Len(windows_[i].wins) >= 2
  /\ \E w \in Range(input) : win[w].type = "PANEL" /\ ~win[w].panel_attached
  /\ Len(windows_) = 2

\* C7: the release of Alt, with the key filter installed, calls the delegate
\* once, OnWindowSelected with the selection window of the selected item; every
\* other key event calls nothing and changes nothing.
C7_AltReleaseSelects ==
  [][last'.op = "OnKeyEvent" =>
     \A key_code \in KeyCodes, event_type \in EventTypes :
       OnKeyEvent(key_code, event_type) =>
         IF key_code = "VKEY_MENU" /\ event_type = "ET_KEY_RELEASED"
         THEN DelegateCalls(calls') =
                <<DelegateCall("OnWindowSelected",
                               SelectionWindow(windows_[selected_window_ + 1]))>>
         ELSE UNCHANGED vars]_vars

\* C7 witness: Alt released after stepping to the second item.
C7_Witness ==
  /\ last.op = "OnKeyEvent"
  /\ phase = "ended"
  /\ selected_window_ = 1
  /\ DelegateCalls(calls) = <<DelegateCall("OnWindowSelected",
                                           SelectionWindow(windows_[2]))>>

\* C8: OnWindowAdded calls OnSelectionCanceled, once, exactly when the new window
\* is NORMAL or PANEL, in a switchable container and without transient parent;
\* otherwise it calls nothing and changes nothing.
C8_WindowAddedAborts ==
  [][last'.op = "OnWindowAdded" =>
     \A type \in WindowTypes, container \in ContainerIds, transient \in BOOLEAN :
       OnWindowAdded(type, container, transient) =>
         IF /\ type \in {"NORMAL", "PANEL"}
            /\ container \in SwitchableContainerIds
            /\ ~transient
         THEN calls' = <<DelegateCall("OnSelectionCanceled", NULL)>>
         ELSE UNCHANGED vars]_vars

\* C8 witness: a session canceled by an added window.
C8_Witness ==
  /\ last.op = "OnWindowAdded"
  /\ phase = "ended"
  /\ calls = <<DelegateCall("OnSelectionCanceled", NULL)>>

\* C9: an activation from outside cancels the session and clears the window to
\* restore focus to, so that destroying the selector afterwards leaves the focus
\* where it is; OnWindowActivated without a window gaining activation does
\* nothing; the selector's own focus restoration cancels nothing.
C9_ActivationCancels ==
  [][last'.op \in ActivateOps \cup {"Destroy"} =>
     /\ \A gained_active \in {NULL} \cup AllWindows :
          OnWindowActivated(gained_active) =>
            IF gained_active # NULL
            THEN /\ calls' = <<DelegateCall("OnSelectionCanceled", NULL)>>
                 /\ restore_focus_window_' = NULL
            ELSE UNCHANGED vars
     /\ \A request_active \in AllWindows :
          OnAttemptToReactivateWindow(request_active) =>
            /\ calls' = <<DelegateCall("OnSelectionCanceled", NULL)>>
            /\ restore_focus_window_' = NULL
     /\ Destroy => /\ calls' = <<>>
                   /\ (phase = "ended" /\ last.op \in ActivateOps) => focused' = focused
    ]_vars

\* C9 witness: destroyed after an activation, the focus not on the entry window.
C9_Witness ==
  /\ phase = "destroyed"
  /\ last.args.ended_by = "OnWindowActivated"
  /\ entry_focus # NULL
  /\ entry_focus \notin destroyed
  /\ focused # NULL
  /\ focused # entry_focus

\* The window a session-ending selection selected.
SelectedWindow == calls[Len(calls)].window

\* C10: selecting W calls RestoreWindowOnExit(W) on the item that holds W and
\* then the delegate's OnWindowSelected(W), and leaves no peek of W to restore:
\* destroying the selector then neither minimizes W nor restacks it.
C10_SelectedNotRestored ==
  /\ [](phase = "ended" /\ last.op \in SelectOps =>
          /\ Len(calls) = 2
          /\ SelectedWindow \in Range(windows_[calls[1].item].wins)
          /\ calls = <<ItemCall("RestoreWindowOnExit", calls[1].item, SelectedWindow),
                       DelegateCall("OnWindowSelected", SelectedWindow)>>
          /\ last.op = "SelectWindow" => SelectedWindow = last.args.window
          /\ showing_window_.window_ # SelectedWindow)
  /\ [][(phase = "ended" /\ last.op \in SelectOps /\ phase' = "destroyed") =>
          /\ minimized'[SelectedWindow] = minimized[SelectedWindow]
          /\ children'[ParentOf(SelectedWindow)] = children[ParentOf(SelectedWindow)]]_vars

\* C10 witness: a minimized window, peeked and selected, ends on top and restored.
C10_Witness ==
  /\ phase = "destroyed"
  /\ last.args.ended_by = "OnKeyEvent"
  /\ destroyed = {}
  /\ \E w \in AllWindows :
       /\ entry_minimized[w] /\ ~minimized[w]
       /\ Len(children[ParentOf(w)]) >= 2
       /\ Top(children[ParentOf(w)]) = w
       /\ Top(entry_children[ParentOf(w)]) # w

\* The operations that end a peek: the next Step, the start of the overview and
\* the destruction of the selector.
PeekEndOps == {"Step", "TimerFired", "Destroy"}

\* The window is being peeked.
Peeked(w) == Showing /\ showing_window_.window_ = w

\* The session ended by selecting the window.
Selected(w) == phase = "ended" /\ last.op \in SelectOps /\ SelectedWindow = w

\* C11: a peek remembers whether its window was minimized when shown; when the
\* peek ends (next Step, start of the overview, destruction) and the window was
\* not selected, the window is minimized again if and only if it was minimized
\* when shown (a Step that peeks the same window again hands the state on to the
\* new peek); a window neither peeked nor selected has the minimized state it
\* had at entry.
C11_PeekRestoresMinimized ==
  /\ [](phase \in {"active", "ended"} =>
          \A w \in AllWindows \ destroyed :
            /\ Peeked(w) => showing_window_.minimized_ = entry_minimized[w]
            /\ ~Peeked(w) /\ ~Selected(w) => minimized[w] = entry_minimized[w])
  /\ [][(Showing /\ last' # last /\ last'.op \in PeekEndOps) =>
          LET w == showing_window_.window_
          IN /\ last'.args.restored = w
             /\ IF showing_window_'.window_ = w
                THEN showing_window_'.minimized_ = showing_window_.minimized_
                ELSE minimized'[w] = showing_window_.minimized_]_vars

\* C11 witness: the overview started while a minimized window was peeked, and the
\* window is minimized again; a window not minimized at entry stays so.
C11_Witness ==
  /\ last.op = "TimerFired"
  /\ last.args.restored # NULL
  /\ entry_minimized[last.args.restored]
  /\ minimized[last.args.restored]
  /\ \E w \in Range(input) : ~entry_minimized[w] /\ ~minimized[w]

\* C12: while the selector lives and has items, the selected index is an index
\* of the item list.
C12_IndexValid ==
  (phase \in {"active", "ended"} /\ windows_ # <<>>) =>
    /\ selected_window_ >= 0
    /\ selected_window_ < Len(windows_)
    /\ window_overview_.exists => window_overview_.selection < Len(windows_)

\* C12 witness: an item was erased while the last item was selected: the index
\* before the erasure is no index of the list after it.
C12_Witness ==
  /\ last.op = "WindowDestroyed"
  /\ phase = "active"
  /\ last.args.erased >= 0
  /\ last.args.from = Len(windows_)
  /\ selected_window_ < Len(windows_)

\* The window a transition destroys.
DestroyedWindow == CHOOSE w \in destroyed' \ destroyed : TRUE

\* The 1-based position of the item that holds the window.
ItemOf(w) == CHOOSE i \in DOMAIN windows_ : w \in Range(windows_[i].wins)

\* A window of an item is destroyed.
ItemWindowDestroyed ==
  /\ phase = "active"
  /\ last'.op = "WindowDestroyed"
  /\ destroyed' # destroyed
  /\ ItemsHolding(DestroyedWindow) # {}

\* C13: in CYCLE mode, when the destruction of a window erases an item and
\* items remain: the selected index designates the item it designated before
\* if that item remains, and otherwise the item that followed the erased one,
\* the first item following the last.
C13_SelectionAfterErase ==
  [][(/\ ItemWindowDestroyed
      /\ mode_ = "CYCLE"
      /\ Len(windows_') = Len(windows_) - 1
      /\ windows_' # <<>>) =>
       LET deleted == ItemOf(DestroyedWindow)
           current == selected_window_ + 1
       IN /\ windows_' = [i \in 1..(Len(windows_) - 1) |->
                            IF i < deleted THEN windows_[i] ELSE windows_[i + 1]]
          /\ IF current # deleted
             THEN windows_'[selected_window_' + 1] = windows_[current]
             ELSE windows_'[selected_window_' + 1] =
                    windows_[(deleted % Len(windows_)) + 1]]_vars

\* C13 witness: the selected item, the last of three, was erased and the
\* selection went to the first item.
C13_Witness ==
  /\ last.op = "WindowDestroyed"
  /\ phase = "active"
  /\ mode_ = "CYCLE"
  /\ last.args.erased = last.args.from
  /\ last.args.erased = Len(windows_)
  /\ Len(windows_) >= 2
  /\ selected_window_ = 0

\* C14: when the destroyed window's item holds other windows, OnWindowDestroying
\* takes the window out of the item and out of the observed windows and changes
\* nothing else: same items otherwise, same selected index, same mode, no call.
C14_GroupKeepsItem ==
  [][(ItemWindowDestroyed /\ Len(windows_[ItemOf(DestroyedWindow)].wins) >= 2) =>
       LET w == DestroyedWindow
       IN /\ windows_' = [windows_ EXCEPT ![ItemOf(w)].wins =
                                            SelectSeq(@, LAMBDA v : v # w)]
          /\ observed_windows_' = observed_windows_ \ {w}
          /\ observing' = observing \ {w}
          /\ selected_window_' = selected_window_
          /\ mode_' = mode_
          /\ window_overview_' = window_overview_
          /\ calls' = <<>>
          /\ phase' = phase]_vars

\* C14 witness: one of the attached panels of the selected panels item was
\* destroyed and the item is still there, selected.
C14_Witness ==
  /\ last.op = "WindowDestroyed"
  /\ phase = "active"
  /\ last.args.erased = -1
  /\ AttachedPanelWindow(last.args.window)
  /\ last.args.window \in Range(input)
  /\ Len(windows_) >= 2
  /\ selected_window_ >= 1
  /\ windows_[selected_window_ + 1].panels
  /\ GetRootWindow(windows_[selected_window_ + 1]) = win[last.args.window].root

\* C15: the mode is set by the constructor and afterwards only changes from
\* OVERVIEW to CYCLE, in Step; a Step in OVERVIEW mode makes the mode CYCLE,
\* installs the key filter, keeps the overview, moved to the root window of the
\* item selected before the step, peeks no window, and advances the selection.
C15_ModeOnlyUpgrades ==
  [][/\ mode_ = "CYCLE" => mode_' = "CYCLE"
     /\ mode_' # mode_ =>
          \/ mode_ = "none" /\ last'.op = "Construct"
          \/ mode_ = "OVERVIEW" /\ mode_' = "CYCLE" /\ last'.op = "Step"
     /\ (phase = "active" /\ mode_ = "OVERVIEW" /\ last'.op = "Step") =>
          LET n == Len(windows_)
          IN /\ mode_' = "CYCLE"
             /\ event_handler_'
             /\ window_overview_.exists
             /\ selected_window_' =
                  (IF last'.args.direction = "FORWARD"
                   THEN (selected_window_ + 1) % n
                   ELSE (selected_window_ + n - 1) % n)
             /\ window_overview_' =
                  [exists |-> TRUE, selection |-> selected_window_',
                   single_root |-> win[windows_[selected_window_ + 1].wins[1]].root]
             /\ UNCHANGED <<showing_window_, children, minimized, windows_>>]_vars

\* C15 witness: the first Step of an OVERVIEW selector went backward to the last
\* of three items; the selector is in CYCLE mode with filter and overview.
C15_Witness ==
  /\ last.op = "Step"
  /\ last.args.mode = "OVERVIEW"
  /\ mode_ = "CYCLE"
  /\ event_handler_
  /\ window_overview_.exists
  /\ window_overview_.single_root \in Roots
  /\ Len(windows_) >= 3
  /\ selected_window_ = Len(windows_) - 1

\* C16: with no window removed, at most one window is raised at a time: while
\* a window is peeked the stacking orders and minimized states are those at
\* entry but for that window, on top and not minimized, and it is the
\* selection window of the selected item; with no peek they are those at
\* entry; and so they are after the selector was destroyed without a selection.
C16_PeekSequenceRoundTrip ==
  destroyed = {} =>
    /\ (phase \in {"active", "ended"} /\ Showing) =>
         LET w == showing_window_.window_
         IN /\ w = windows_[selected_window_ + 1].wins[1]
            /\ minimized = [entry_minimized EXCEPT ![w] = FALSE]
            /\ children = [entry_children EXCEPT ![ParentOf(w)] =
                             SelectSeq(@, LAMBDA v : v # w) \o <<w>>]
    /\ (phase = "active" /\ ~Showing) =>
         minimized = entry_minimized /\ children = entry_children
    /\ (phase = "destroyed" /\ last.args.ended_by \notin SelectOps) =>
         minimized = entry_minimized /\ children = entry_children

\* C16 witness: the selector was destroyed, unselected, while peeking the window
\* at the bottom of three, minimized at entry like another window of the list;
\* stacking orders and minimized states are those at entry.
C16_Witness ==
  /\ phase = "destroyed"
  /\ destroyed = {}
  /\ last.args.ended_by \notin SelectOps
  /\ last.args.restored # NULL
  /\ Len(entry_children[ParentOf(last.args.restored)]) >= 3
  /\ entry_children[ParentOf(last.args.restored)][1] = last.args.restored
  /\ entry_minimized[last.args.restored]
  /\ \E v \in Range(input) \ {last.args.restored} : entry_minimized[v]
  /\ minimized = entry_minimized
  /\ children = entry_children

====
